---- MODULE Spec2Model ----
\* Model of the graphzer command line run: main.loop (argument validation,
\* asset fetch) followed by pool.routine.main_routine (sequential per-domain
\* scan, result accumulation, result sinks) and io.printers.display_results.
EXTENDS Integers, Sequences, FiniteSets, TLC

\* ---------------------------------------------------------------- bounds
\* Longest domain list read_domains hands back in the model.
MaxDomains == 3

\* ---------------------------------------------------------------- values
\* Python's None.
NONE == "None"

\* Domain.url values a domain list is built from.
DomainUrls == {"a.com", "b.com"}

Range(s) == {s[i] : i \in 1..Len(s)}

\* All sequences over S of length 0..n.
RECURSIVE SeqsUpTo(_, _)
SeqsUpTo(S, n) ==
    IF n = 0 THEN {<<>>}
    ELSE LET shorter == SeqsUpTo(S, n - 1)
         IN  shorter \cup {Append(s, x) : s \in {t \in shorter : Len(t) = n - 1}, x \in S}

\* ---------------------------------------------------------------- Results
\* entities.io.Results: a Python dict (insertion ordered) from str to Set[Url].
\* keys is the iteration order, vals the mapping itself.
EmptyResults == [keys |-> <<>>, vals |-> <<>>]

\* results[k] = v: an existing key keeps its position, a new one goes last.
DictSet(d, k, v) ==
    IF k \in Range(d.keys)
    THEN [keys |-> d.keys, vals |-> [d.vals EXCEPT ![k] = v]]
    ELSE [keys |-> Append(d.keys, k), vals |-> (k :> v) @@ d.vals]

\* ---------------------------------------------------------------- state
VARIABLES
    args,         \* the argparse.Namespace built by argument_builder
    pc,           \* position of the run inside loop / main_routine
    domains,      \* main_routine: list returned by read_domains (of Domain.url)
    output_file,  \* main_routine: local copy of args.output_file
    idx,          \* main_routine: position of the for loop in domains (1-based)
    results,      \* main_routine: the Results dict being accumulated
    tasks,        \* domain_routine: _tasks
    urls,         \* domain_routine: _urls
    result,       \* main_routine: the dict domain_routine returned
    printed,      \* what display_results wrote to stdout
    ret,          \* value loop() returned (NONE while running)
    log,          \* history: calls made so far, in order
    scans,        \* history: per position of domains, what its scan did
    sunk          \* history: the sink calls, each with the mapping it was handed

vars == <<args, pc, domains, output_file, idx, results, tasks, urls, result,
          printed, ret, log, scans, sunk>>

\* A call in the history: which one, and for which position of domains
\* (0: for none in particular).
Ev(op, i) == [op |-> op, i |-> i]

\* The history of one position of domains: the calls made for it in order, the
\* raw set consume_tasks returned, the set stored, and where in log its scan
\* started and its entry was stored (0: not yet).
NoScan == [ops |-> <<>>, raw |-> {}, stored |-> {}, start |-> 0, end |-> 0]

Step(sc, i, op) == [sc EXCEPT ![i].ops = Append(@, op)]

\* ---------------------------------------------------------------- main.py
\* The namespaces argument_builder can produce, as far as the run reads them.
ArgSpace ==
    [domain: {NONE} \cup DomainUrls,
     input_file: {NONE, "domains.txt"},
     no_script_mode: BOOLEAN,
     no_bruteforce_mode: BOOLEAN,
     quiet_mode: BOOLEAN,
     output_file: {NONE, "out.json"},
     webhook_url: {NONE, "https://hook"}]

\* validate_arguments without the test of lines 118-120.
validate_arguments_modes_unchecked(a) ==
    IF a.domain = NONE /\ a.input_file = NONE THEN FALSE
    ELSE IF a.domain # NONE /\ a.input_file # NONE THEN FALSE
    ELSE TRUE

\* main.validate_arguments (lines 104-125).
validate_arguments(a) ==
    IF a.domain = NONE /\ a.input_file = NONE THEN FALSE
    ELSE IF a.domain # NONE /\ a.input_file # NONE THEN FALSE
    ELSE IF a.no_script_mode /\ a.no_bruteforce_mode THEN FALSE
    ELSE TRUE

Init ==
    /\ args \in ArgSpace
    /\ pc = "loop"
    /\ domains = <<>>
    /\ output_file = NONE
    /\ idx = 0
    /\ results = EmptyResults
    /\ tasks = <<>>
    /\ urls = {}
    /\ result = NONE
    /\ printed = <<>>
    /\ ret = NONE
    /\ log = <<>>
    /\ scans = <<>>
    /\ sunk = <<>>

\* loop(): validate the arguments; an invalid namespace returns {} at once.
LoopValidate ==
    /\ pc = "loop"
    /\ IF validate_arguments(args)
       THEN /\ pc' = "fetch_assets"
            /\ ret' = ret
       ELSE /\ pc' = "done"
            /\ ret' = EmptyResults
    /\ UNCHANGED <<args, domains, output_file, idx, results, tasks, urls,
                   result, printed, log, scans, sunk>>

\* loop(): fetch_assets(), then enter main_routine.
FetchAssets ==
    /\ pc = "fetch_assets"
    /\ pc' = "main_routine"
    /\ log' = Append(log, Ev("fetch_assets", 0))
    /\ UNCHANGED <<args, domains, output_file, idx, results, tasks, urls,
                   result, printed, ret, scans, sunk>>

\* ---------------------------------------------------------------- collaborators
\* io.readers.read_domains(file, domain, precision_mode): the lists it may
\* return.  A single --domain yields that one domain (or nothing when it is not
\* a valid host); a file yields one Domain per line, in file order, repeated
\* lines included.
read_domains(file, domain) ==
    IF domain # NONE THEN {<<>>, <<domain>>}
    ELSE IF file # NONE THEN SeqsUpTo(DomainUrls, MaxDomains)
    ELSE {<<>>}

\* pool.tasks.init_domain_tasks(domain, args): the strategy set, in the fixed
\* order script inspection, bruteforce.
init_domain_tasks(d, a) ==
    (IF a.no_script_mode THEN <<>> ELSE <<[kind |-> "script", domain |-> d]>>)
    \o (IF a.no_bruteforce_mode THEN <<>> ELSE <<[kind |-> "bruteforce", domain |-> d]>>)

\* A Url is modelled as a natural number u: u \div 2 is its path and u % 2 = 1
\* says that it is written with a trailing slash.  Python's sorted() on the
\* strings agrees with the order of these numbers ("p" < "p/").
\* What one probing strategy can find on a domain: script inspection the
\* endpoint written with a trailing slash, bruteforce a second endpoint.
Discoverable(kind) == IF kind = "script" THEN {1} ELSE {2}

\* pool.tasks.consume_tasks(tasks, domain): the raw Url sets the probes may
\* bring back, the union of what each task found (a task may find nothing).
consume_tasks(ts) == SUBSET (UNION {Discoverable(ts[j].kind) : j \in 1..Len(ts)})

\* utils.filters.filter_urls(urls): canonical form (trailing slash removed),
\* duplicates collapsing in the set.
Normalize(u) == u - (u % 2)

filter_urls(us) == {Normalize(u) : u \in us}

\* ---------------------------------------------------------------- pool/routine.py
\* `if not domains` (line 44), and the loop entered whatever the list is.
NoDomainsAlways(ds) == FALSE

NoDomains(ds) == ds = <<>>

\* The loop variable `domain` of `for domain in domains` (line 58), and the
\* list walked from its end.
CurrentDomainReversed == domains[Len(domains) + 1 - idx]

CurrentDomain == domains[idx]

\* domain_routine's return value (line 28), and the raw set returned as it is.
DomainRoutineResultUnfiltered(url, us) == [domain |-> url, urls |-> us]

DomainRoutineResult(url, us) == [domain |-> url, urls |-> filter_urls(us)]

\* The except branch's `results[domain.url] = set()` (line 67); a handler that
\* only logs; a handler that keeps an entry already there.
ExceptStoreNothing(d, k) == d

ExceptStoreKeepExisting(d, k) == IF k \in Range(d.keys) THEN d ELSE DictSet(d, k, {})

ExceptStore(d, k) == DictSet(d, k, {})

\* `if not args.quiet_mode` (line 70), and the test left out.
ShouldDisplayAlways(a) == TRUE

ShouldDisplay(a) == ~a.quiet_mode

\* main_routine lines 34-55: read the domains; an empty list returns {} at
\* once, otherwise output_file is taken out of args and the loop is set up.
MainRoutineRead ==
    /\ pc = "main_routine"
    /\ \E ds \in read_domains(args.input_file, args.domain) :
        /\ domains' = ds
        /\ log' = Append(log, Ev("read_domains", 0))
        /\ scans' = [i \in 1..Len(ds) |-> NoScan]
        /\ IF NoDomains(ds)
           THEN /\ pc' = "done"
                /\ ret' = EmptyResults
                /\ UNCHANGED <<args, output_file, idx, results>>
           ELSE /\ pc' = "for"
                /\ output_file' = args.output_file
                /\ args' = [args EXCEPT !.output_file = "deleted"]
                /\ results' = EmptyResults
                /\ idx' = 1
                /\ ret' = ret
    /\ UNCHANGED <<tasks, urls, result, printed, sunk>>

\* `for domain in domains:` (line 58): next domain, or fall out of the loop.
ForNext ==
    /\ pc = "for"
    /\ IF idx <= Len(domains)
       THEN /\ pc' = "init_domain_tasks"
            /\ log' = Append(log, Ev("domain_routine", idx))
            /\ scans' = [Step(scans, idx, "domain_routine") EXCEPT ![idx].start = Len(log')]
       ELSE /\ pc' = "display"
            /\ UNCHANGED <<log, scans>>
    /\ UNCHANGED <<args, domains, output_file, idx, results, tasks, urls,
                   result, printed, ret, sunk>>

\* domain_routine line 25.
InitDomainTasks ==
    /\ pc = "init_domain_tasks"
    /\ tasks' = init_domain_tasks(CurrentDomain, args)
    /\ log' = Append(log, Ev("init_domain_tasks", idx))
    /\ scans' = Step(scans, idx, "init_domain_tasks")
    /\ pc' = "consume_tasks"
    /\ UNCHANGED <<args, domains, output_file, idx, results, urls, result,
                   printed, ret, sunk>>

\* domain_routine line 26: the awaited consume_tasks returns a raw Url set.
ConsumeTasks ==
    /\ pc = "consume_tasks"
    /\ \E us \in consume_tasks(tasks) :
        /\ urls' = us
        /\ log' = Append(log, Ev("consume_tasks", idx))
        /\ scans' = [Step(scans, idx, "consume_tasks") EXCEPT ![idx].raw = us]
    /\ pc' = "filter_urls"
    /\ UNCHANGED <<args, domains, output_file, idx, results, tasks, result,
                   printed, ret, sunk>>

\* domain_routine line 26: an exception escapes consume_tasks; it propagates
\* through domain_routine to the try of main_routine (line 65).
ConsumeTasksRaise ==
    /\ pc = "consume_tasks"
    /\ log' = Append(log, Ev("raise", idx))
    /\ scans' = Step(scans, idx, "raise")
    /\ pc' = "except"
    /\ UNCHANGED <<args, domains, output_file, idx, results, tasks, urls,
                   result, printed, ret, sunk>>

\* domain_routine line 28: filter and return.
FilterUrls ==
    /\ pc = "filter_urls"
    /\ result' = DomainRoutineResult(CurrentDomain, urls)
    /\ log' = Append(log, Ev("filter_urls", idx))
    /\ scans' = Step(scans, idx, "filter_urls")
    /\ pc' = "insert"
    /\ UNCHANGED <<args, domains, output_file, idx, results, tasks, urls,
                   printed, ret, sunk>>

\* main_routine lines 62-64.  The locals of the finished domain_routine call
\* are gone and `result` is not read again before it is rebound.
Insert ==
    /\ pc = "insert"
    /\ results' = DictSet(results, result.domain, result.urls)
    /\ log' = Append(log, Ev("insert", idx))
    /\ scans' = [Step(scans, idx, "insert") EXCEPT ![idx].stored = result.urls,
                                                    ![idx].end = Len(log')]
    /\ idx' = idx + 1
    /\ tasks' = <<>>
    /\ urls' = {}
    /\ result' = NONE
    /\ pc' = "for"
    /\ UNCHANGED <<args, domains, output_file, printed, ret, sunk>>

\* main_routine lines 65-67.
Except ==
    /\ pc = "except"
    /\ results' = ExceptStore(results, CurrentDomain)
    /\ log' = Append(log, Ev("except", idx))
    /\ scans' = [Step(scans, idx, "except") EXCEPT ![idx].end = Len(log')]
    /\ idx' = idx + 1
    /\ tasks' = <<>>
    /\ urls' = {}
    /\ result' = NONE
    /\ pc' = "for"
    /\ UNCHANGED <<args, domains, output_file, printed, ret, sunk>>

\* ---------------------------------------------------------------- io/printers.py
\* One print() call: what kind of line, about which domain, with which number
\* (a count, or the Url on an endpoint line).
Line(kind, d, n) == [kind |-> kind, domain |-> d, n |-> n]

Min(S) == CHOOSE x \in S : \A y \in S : x <= y

\* sorted(results[domain]).
RECURSIVE Sorted(_)
Sorted(S) == IF S = {} THEN <<>> ELSE <<Min(S)>> \o Sorted(S \ {Min(S)})

\* Lines 16-21: the bulk loop, carrying found_count.
RECURSIVE BulkLoop(_, _, _, _)
BulkLoop(res, i, found_count, out) ==
    IF i > Len(res.keys) THEN [out |-> out, found_count |-> found_count]
    ELSE LET domain == res.keys[i]
         IN  IF res.vals[domain] # {}
             THEN BulkLoop(res, i + 1, found_count + 1,
                           out \o << Line("domain", domain, 0),
                                     Line("detected", domain, Cardinality(res.vals[domain])),
                                     Line("blank", "", 0) >>)
             ELSE BulkLoop(res, i + 1, found_count, out)

\* Lines 36-37.
EndpointLines(domain, S) ==
    LET srt == Sorted(S)
    IN  [j \in 1..Len(srt) |-> Line("endpoint", domain, srt[j])]

\* Lines 31-41: the detailed loop.
RECURSIVE DetailLoop(_, _, _)
DetailLoop(res, i, out) ==
    IF i > Len(res.keys) THEN out
    ELSE LET domain == res.keys[i]
         IN  DetailLoop(res, i + 1,
                 out \o << Line("Domain", domain, 0),
                           Line("Endpoints Found", domain, Cardinality(res.vals[domain])) >>
                     \o (IF res.vals[domain] # {}
                         THEN <<Line("GraphQL Endpoints", domain, 0)>>
                              \o EndpointLines(domain, res.vals[domain])
                         ELSE <<Line("No GraphQL endpoints detected", domain, 0)>>)
                     \o << Line("rule", "", 0), Line("blank", "", 0) >>)

\* A bulk listing that forgets the `if results[domain]` test of line 17.
RECURSIVE BulkLoopAll(_, _, _, _)
BulkLoopAll(res, i, found_count, out) ==
    IF i > Len(res.keys) THEN [out |-> out, found_count |-> found_count]
    ELSE LET domain == res.keys[i]
         IN  BulkLoopAll(res, i + 1, found_count + 1,
                         out \o << Line("domain", domain, 0),
                                   Line("detected", domain, Cardinality(res.vals[domain])),
                                   Line("blank", "", 0) >>)

display_results_no_test(res, bulk_mode) ==
    IF bulk_mode
    THEN LET b == BulkLoopAll(res, 1, 0, <<>>)
         IN  <<Line("DISCOVERED DOMAINS", "", 0), Line("blank", "", 0)>>
             \o b.out
             \o <<Line("SCAN COMPLETE", "", b.found_count)>>
    ELSE <<Line("ANALYSIS RESULTS", "", 0), Line("blank", "", 0)>>
         \o DetailLoop(res, 1, <<>>)

\* display_results(results, bulk_mode): the lines it prints.  The function only
\* reads results.
display_results(res, bulk_mode) ==
    IF bulk_mode
    THEN LET b == BulkLoop(res, 1, 0, <<>>)
         IN  <<Line("DISCOVERED DOMAINS", "", 0), Line("blank", "", 0)>>
             \o b.out
             \o <<Line("SCAN COMPLETE", "", b.found_count)>>
    ELSE <<Line("ANALYSIS RESULTS", "", 0), Line("blank", "", 0)>>
         \o DetailLoop(res, 1, <<>>)

\* ---------------------------------------------------------------- the sinks
\* A sink call in the history: which sink, the mapping it was handed, and where
\* in log the call is.
SinkEv(op, r, at) == [op |-> op, seen |-> r, at |-> at]

\* main_routine lines 70-73.  print() may raise: the first line printed holds
\* box drawing characters, which a stdout encoding such as ASCII rejects with
\* UnicodeEncodeError.  No handler is around the call, so the exception leaves
\* main_routine, loop and main with nothing printed.
Display ==
    /\ pc = "display"
    /\ IF ShouldDisplay(args)
       THEN LET out == display_results(results, args.input_file # NONE)
            IN  /\ log' = Append(log, Ev("display_results", 0))
                /\ sunk' = Append(sunk, SinkEv("display_results", results, Len(log')))
                /\ \/ /\ printed' = out
                      /\ pc' = "write"
                   \/ /\ printed' = <<>>
                      /\ pc' = "crashed"
       ELSE /\ pc' = "write"
            /\ UNCHANGED <<log, sunk, printed>>
    /\ UNCHANGED <<args, domains, output_file, idx, results, tasks, urls,
                   result, ret, scans>>

\* main_routine lines 76-77: write_results(output_file, results.copy()), also
\* called without a handler.
Write ==
    /\ pc = "write"
    /\ IF output_file # NONE
       THEN /\ log' = Append(log, Ev("write_results", 0))
            /\ sunk' = Append(sunk, SinkEv("write_results", results, Len(log')))
            /\ \/ pc' = "webhook"
               \/ pc' = "crashed"
       ELSE /\ pc' = "webhook"
            /\ UNCHANGED <<log, sunk>>
    /\ UNCHANGED <<args, domains, output_file, idx, results, tasks, urls,
                   result, printed, ret, scans>>

\* main_routine lines 80-81: send_webhook(args.webhook_url, results), also
\* called without a handler.
Webhook ==
    /\ pc = "webhook"
    /\ IF args.webhook_url # NONE
       THEN /\ log' = Append(log, Ev("send_webhook", 0))
            /\ sunk' = Append(sunk, SinkEv("send_webhook", results, Len(log')))
            /\ \/ pc' = "return"
               \/ pc' = "crashed"
       ELSE /\ pc' = "return"
            /\ UNCHANGED <<log, sunk>>
    /\ UNCHANGED <<args, domains, output_file, idx, results, tasks, urls,
                   result, printed, ret, scans>>

\* main_routine line 83, handed on by loop (main.py line 195).
Return ==
    /\ pc = "return"
    /\ ret' = results
    /\ pc' = "done"
    /\ UNCHANGED <<args, domains, output_file, idx, results, tasks, urls,
                   result, printed, log, scans, sunk>>

Next ==
    \/ LoopValidate
    \/ FetchAssets
    \/ MainRoutineRead
    \/ ForNext
    \/ InitDomainTasks
    \/ ConsumeTasks
    \/ ConsumeTasksRaise
    \/ FilterUrls
    \/ Insert
    \/ Except
    \/ Display
    \/ Write
    \/ Webhook
    \/ Return

Spec == Init /\ [][Next]_vars

\* ---------------------------------------------------------------- display_results alone
\* Every Results mapping over DomainUrls: the keys in any order, each with any
\* filtered Url set.
AllResults ==
    UNION {[keys : {ks}, vals : [Range(ks) -> SUBSET {0, 2}]] :
           ks \in {q \in SeqsUpTo(DomainUrls, MaxDomains) : Cardinality(Range(q)) = Len(q)}}

\* main_routine at line 70 with any mapping accumulated, printing asked for.
InitDisplay ==
    /\ args \in {a \in ArgSpace : validate_arguments(a) /\ ShouldDisplay(a)}
    /\ pc = "display"
    /\ results \in AllResults
    /\ domains = results.keys
    /\ output_file = args.output_file
    /\ idx = Len(domains) + 1
    /\ tasks = <<>>
    /\ urls = {}
    /\ result = NONE
    /\ printed = <<>>
    /\ ret = NONE
    /\ log = <<>>
    /\ scans = <<>>
    /\ sunk = <<>>

SpecDisplay == InitDisplay /\ [][Display]_vars

\* ---------------------------------------------------------------- reading the history
Called(op) == \E j \in 1..Len(log) : log[j].op = op

\* Whether the sink `op` was invoked, and the record of its (first) call.
Sunk(op) == \E j \in 1..Len(sunk) : sunk[j].op = op

SinkCall(op) == sunk[CHOOSE j \in 1..Len(sunk) : sunk[j].op = op]

Positions == 1..Len(domains)

LastOp(i) == IF scans[i].ops = <<>> THEN NONE ELSE scans[i].ops[Len(scans[i].ops)]

Started(i) == scans[i].ops # <<>>

RaisedAt(i) == LastOp(i) = "except"

InsertedAt(i) == LastOp(i) = "insert"

Completed(i) == RaisedAt(i) \/ InsertedAt(i)

\* The raw set consume_tasks returned for position i.
Consumed(i) == scans[i].raw

IsPrefix(s, t) == Len(s) <= Len(t) /\ s = SubSeq(t, 1, Len(s))

\* No completed later occurrence of the same url.
LatestCompleted(i) ==
    \A k \in (i + 1)..Len(domains) : Completed(k) => domains[k] # domains[i]

\* The for loop of main_routine has been left.
LoopFinished ==
    \/ pc \in {"display", "write", "webhook", "return", "crashed"}
    \/ pc = "done" /\ domains # <<>>

\* s without the later repetitions of its elements.
RECURSIVE Dedup(_)
Dedup(s) ==
    IF s = <<>> THEN <<>>
    ELSE LET front == Dedup(SubSeq(s, 1, Len(s) - 1))
             last == s[Len(s)]
         IN  IF last \in Range(front) THEN front ELSE Append(front, last)

Keys(d) == Range(d.keys)

\* Whether an output file was given on the command line (main_routine moves
\* it from args into output_file).
OutputFileGiven ==
    IF args.output_file = "deleted" THEN output_file # NONE ELSE args.output_file # NONE

\* ---------------------------------------------------------------- C1
\* C1 as stated: main_routine returns an entry for every input domain's url,
\* EVERY domain whose scan raised is mapped to the empty set, and every domain
\* is scanned.
C1_EveryRaisedDomainMapsToEmpty ==
    pc = "done" /\ domains # <<>> =>
        \A i \in Positions :
            /\ Started(i)
            /\ domains[i] \in Keys(ret)
            /\ (RaisedAt(i) => ret.vals[domains[i]] = {})

\* C1 amended: once the loop is over every input domain has been scanned and
\* its url has an entry, a domain whose scan raised is mapped to the empty set
\* unless the same url occurs again later in the input, and that mapping is
\* what main_routine returns.
C1_Totality ==
    LoopFinished =>
        /\ \A i \in Positions :
              /\ Started(i) /\ Completed(i)
              /\ domains[i] \in Keys(results)
              /\ RaisedAt(i) /\ LatestCompleted(i) => results.vals[domains[i]] = {}
        /\ pc = "done" => ret = results

\* A failed scan in the middle of the list, followed by a successful one.
C1_Witness ==
    /\ pc = "done"
    /\ Len(domains) = 3
    /\ domains[2] # domains[1] /\ domains[2] # domains[3]
    /\ RaisedAt(2) /\ InsertedAt(3)
    /\ ret.vals[domains[2]] = {}
    /\ ret.vals[domains[3]] # {}

\* ---------------------------------------------------------------- C2
\* C2: once the scan loop is over, a failing sink does not let an exception
\* escape main_routine, which still returns the accumulated mapping.
C2_SinkFailureContained ==
    /\ pc # "crashed"
    /\ pc = "done" /\ domains # <<>> => ret = results

\* ---------------------------------------------------------------- C3
\* C3: at most one domain scan is in flight, the scan of position i+1 starts
\* only after the entry of position i was stored, and the keys of the returned
\* mapping are in input order (each url where it first occurs).
C3_Sequential ==
    /\ Cardinality({i \in Positions : Started(i) /\ ~Completed(i)}) <= 1
    /\ \A i \in Positions :
          Started(i) /\ i > 1 =>
              /\ Completed(i - 1)
              /\ scans[i - 1].end < scans[i].start
    /\ pc = "done" /\ domains # <<>> => ret.keys = Dedup(domains)

C3_Witness ==
    /\ pc = "done"
    /\ domains = <<"b.com", "a.com", "b.com">>
    /\ ret.keys = <<"b.com", "a.com">>
    /\ InsertedAt(1) /\ InsertedAt(2) /\ InsertedAt(3)

\* ---------------------------------------------------------------- C4
\* C4: with script and bruteforce scanning both disabled the arguments are
\* rejected and loop returns {} without fetch_assets, read_domains or any
\* scan, whatever the other arguments are.
C4_FailFast ==
    args.no_script_mode /\ args.no_bruteforce_mode =>
        /\ ~validate_arguments(args)
        /\ log = <<>>
        /\ pc \in {"loop", "done"}
        /\ pc = "done" => ret = EmptyResults

\* Both modes disabled while the rest of the command line is valid.
C4_Witness ==
    /\ pc = "done"
    /\ args.no_script_mode /\ args.no_bruteforce_mode
    /\ args.domain # NONE /\ args.input_file = NONE
    /\ ret = EmptyResults

C6_EmptyInput ==
    Called("read_domains") /\ domains = <<>> =>
        /\ pc = "done"
        /\ ret = EmptyResults
        /\ \A j \in 1..Len(log) : log[j].op \in {"fetch_assets", "read_domains"}
        /\ scans = <<>>
        /\ sunk = <<>>
        /\ printed = <<>>

\* The empty list with every sink asked for.
C6_Witness ==
    /\ pc = "done"
    /\ Called("read_domains") /\ domains = <<>>
    /\ ~args.quiet_mode /\ args.output_file = "out.json" /\ args.webhook_url # NONE
    /\ ret = EmptyResults

\* ---------------------------------------------------------------- C7
\* C7: for a domain whose scan does not raise the calls are, once each and in
\* this order, init_domain_tasks, consume_tasks, filter_urls, insert; what is
\* stored under its url is filter_urls of what consume_tasks returned.
ScanSteps == <<"domain_routine", "init_domain_tasks", "consume_tasks", "filter_urls", "insert">>

FailedScanSteps == <<"domain_routine", "init_domain_tasks", "raise", "except">>

C7_Pipeline ==
    \A i \in Positions :
        /\ IsPrefix(scans[i].ops, ScanSteps) \/ IsPrefix(scans[i].ops, FailedScanSteps)
        /\ InsertedAt(i) =>
              /\ scans[i].ops = ScanSteps
              /\ scans[i].stored = filter_urls(Consumed(i))
              /\ LatestCompleted(i) => results.vals[domains[i]] = filter_urls(Consumed(i))

\* The same url scanned twice; the second scan brings back both spellings of
\* an endpoint's neighbours and the filtered set is what is returned.
C7_Witness ==
    /\ pc = "done"
    /\ Len(domains) = 2 /\ domains[1] = domains[2]
    /\ InsertedAt(1) /\ InsertedAt(2)
    /\ Consumed(2) = {1, 2}
    /\ ret.vals[domains[2]] = {0, 2}

\* ---------------------------------------------------------------- C8
\* C8 as stated: in a finished run of main_routine display_results was invoked
\* if and only if quiet_mode is false, write_results if and only if an output
\* file was given, send_webhook if and only if webhook_url is not None.
C8_SinkInvokedIffOption ==
    pc = "done" /\ Called("read_domains") =>
        /\ Sunk("display_results") <=> ~args.quiet_mode
        /\ Sunk("write_results") <=> OutputFileGiven
        /\ Sunk("send_webhook") <=> args.webhook_url # NONE

SinkRank(op) ==
    IF op = "display_results" THEN 1 ELSE IF op = "write_results" THEN 2 ELSE 3

\* C8 amended: each sink is invoked at most once, only after every input
\* domain has its entry, with the final mapping, in the order display, write,
\* webhook, and only if its option asks for it; when main_routine returns for
\* a non-empty domain list each sink was invoked if and only if its option
\* asks for it (an empty domain list returns before any sink).
C8_SinksSeeFinalResults ==
    /\ \A j \in 1..Len(sunk) :
          /\ domains # <<>>
          /\ \A i \in Positions :
                Completed(i) /\ scans[i].end < sunk[j].at /\ domains[i] \in Keys(sunk[j].seen)
          /\ sunk[j].seen = results
          /\ \A k \in 1..(j - 1) : SinkRank(sunk[k].op) < SinkRank(sunk[j].op)
    /\ Sunk("display_results") => ~args.quiet_mode
    /\ Sunk("write_results") => OutputFileGiven
    /\ Sunk("send_webhook") => args.webhook_url # NONE
    /\ pc = "done" /\ domains # <<>> =>
          /\ Sunk("display_results") <=> ~args.quiet_mode
          /\ Sunk("write_results") <=> OutputFileGiven
          /\ Sunk("send_webhook") <=> args.webhook_url # NONE
          /\ \A j \in 1..Len(sunk) : sunk[j].seen = ret

\* All three sinks invoked on a two-domain run.
C8_Witness ==
    /\ pc = "done"
    /\ Len(domains) = 2
    /\ Len(sunk) = 3
    /\ sunk[1].op = "display_results"
    /\ sunk[2].op = "write_results"
    /\ sunk[3].op = "send_webhook"

\* ---------------------------------------------------------------- C9
\* The domains named, and the numbers given, on the lines of one kind.
LinesOf(kind) == SelectSeq(printed, LAMBDA l : l.kind = kind)

NonEmptyKeys(d) == SelectSeq(d.keys, LAMBDA k : d.vals[k] # {})

\* C9: in bulk mode display_results lists exactly the domains with a non-empty
\* set, in mapping order, and the SCAN COMPLETE line counts them; otherwise it
\* lists every domain of the mapping with the size of its set; the mapping is
\* left as it was handed over.
C9_Display ==
    printed # <<>> =>
        /\ SinkCall("display_results").seen = results
        /\ IF args.input_file # NONE
           THEN LET shown == LinesOf("domain")
                    sizes == LinesOf("detected")
                    expect == NonEmptyKeys(results)
                IN  /\ Len(shown) = Len(expect) /\ Len(sizes) = Len(expect)
                    /\ \A j \in 1..Len(expect) :
                          /\ shown[j].domain = expect[j]
                          /\ sizes[j].domain = expect[j]
                          /\ sizes[j].n = Cardinality(results.vals[expect[j]])
                    /\ printed[Len(printed)].kind = "SCAN COMPLETE"
                    /\ printed[Len(printed)].n = Len(expect)
                    /\ Len(LinesOf("SCAN COMPLETE")) = 1
           ELSE LET shown == LinesOf("Domain")
                    sizes == LinesOf("Endpoints Found")
                IN  /\ Len(shown) = Len(results.keys) /\ Len(sizes) = Len(results.keys)
                    /\ \A j \in 1..Len(results.keys) :
                          /\ shown[j].domain = results.keys[j]
                          /\ sizes[j].n = Cardinality(results.vals[results.keys[j]])
                    /\ \A k \in Keys(results) :
                          Len(SelectSeq(printed, LAMBDA l : l.kind = "endpoint" /\ l.domain = k))
                              = Cardinality(results.vals[k])

\* A detailed listing of a mapping with one empty and one non-empty entry.
C9_Witness ==
    /\ printed # <<>>
    /\ args.input_file = NONE
    /\ Len(results.keys) = 2
    /\ results.vals[results.keys[1]] = {}
    /\ results.vals[results.keys[2]] = {0, 2}
    /\ Len(LinesOf("No GraphQL endpoints detected")) = 1
    /\ Len(LinesOf("endpoint")) = 2

\* ---------------------------------------------------------------- C10
\* The last position of domains holding the url u.
LastPosition(u) == CHOOSE i \in Positions : domains[i] = u /\ \A k \in (i + 1)..Len(domains) : domains[k] # u

\* C10: with repeated urls the returned mapping has one key per distinct url,
\* placed where the url first occurred, and its value is the outcome of the
\* url's last scan (the empty set when that scan failed).
C10_Duplicates ==
    pc = "done" /\ domains # <<>> =>
        /\ Len(ret.keys) = Cardinality(Range(domains))
        /\ ret.keys = Dedup(domains)
        /\ \A u \in Range(domains) :
              ret.vals[u] = IF RaisedAt(LastPosition(u)) THEN {}
                            ELSE filter_urls(Consumed(LastPosition(u)))

\* a, b, a: a's first scan finds endpoints, its second scan fails.
C10_Witness ==
    /\ pc = "done"
    /\ domains = <<"a.com", "b.com", "a.com">>
    /\ InsertedAt(1) /\ filter_urls(Consumed(1)) # {}
    /\ RaisedAt(3)
    /\ ret.keys = <<"a.com", "b.com">>
    /\ ret.vals["a.com"] = {}
====
